---- MODULE Spec2Model ----
(***************************************************************************)
(* Model of the Scala source-file fact extractor of parser.go:             *)
(* treeSitterParser.Parse and the readers it calls, over concrete syntax   *)
(* trees as the tree-sitter provider hands them over.                      *)
(*                                                                         *)
(* A string is a sequence of one-character strings, so that "+" of the Go  *)
(* code is \o and the position of every dot can be inspected.              *)
(* A syntax node is a record                                               *)
(*   [type, text, kids, fields]                                            *)
(* type   = node.Type(); text = node.Content(sourceCode);                  *)
(* kids   = the named children, kids[i+1] = node.NamedChild(i);            *)
(* fields = the grammar field name of each named child ("" for none).      *)
(* A nil *sitter.Node is the record Nil; calling a method on it panics.    *)
(***************************************************************************)
EXTENDS Integers, Sequences, FiniteSets, TLC

(* ---------------------------------------------------------------------- *)
(* Bounds of the checked input space                                       *)
(* ---------------------------------------------------------------------- *)
MaxRoot == 3
MaxDepth == 4
MaxSel == 2
MaxNest == 2

(* ---------------------------------------------------------------------- *)
(* Syntax tree nodes (interface consumed from go-tree-sitter)              *)
(* ---------------------------------------------------------------------- *)
Nil == [type |-> "<nil>", text |-> <<>>, kids |-> <<>>, fields |-> <<>>]

Dot == <<".">>

NamedChildCount(node) == Len(node.kids)

NamedChild(node, i) == node.kids[i + 1]

ChildByFieldName(node, name) ==
  LET hits == {k \in 1..Len(node.kids) : node.fields[k] = name}
  IN IF hits = {} THEN Nil
     ELSE node.kids[CHOOSE k \in hits : \A j \in hits : k <= j]

getLoneChild(node, name) ==
  LET hits == {k \in 1..NamedChildCount(node) : NamedChild(node, k - 1).type = name}
  IN IF hits = {} THEN Nil
     ELSE NamedChild(node, (CHOOSE k \in hits : \A j \in hits : k <= j) - 1)

(* variant: looks at the first modifier only *)
hasAccessModifier_firstOnly(node) ==
  LET modifiers == getLoneChild(node, "modifiers")
  IN IF modifiers # Nil
     THEN NamedChild(modifiers, 0).type = "access_modifier"
     ELSE FALSE

hasAccessModifier(node) ==
  LET modifiers == getLoneChild(node, "modifiers")
  IN IF modifiers # Nil
     THEN getLoneChild(modifiers, "access_modifier") # Nil
     ELSE FALSE

(* ---------------------------------------------------------------------- *)
(* Outcome of a reader: "ok" with a value, "exit" for the printed          *)
(* os.Exit(1) path, "panic" for a nil-pointer dereference.                 *)
(* ---------------------------------------------------------------------- *)
Ok(v) == [status |-> "ok", val |-> v, msg |-> ""]
Exit(m) == [status |-> "exit", val |-> <<>>, msg |-> m]
Panic == [status |-> "panic", val |-> <<>>, msg |-> "nil pointer dereference"]

(* the loop body shared by the readers: children c+1..total, builder s *)
RECURSIVE joinIdentifiers(_, _, _, _, _)
joinIdentifiers(node, c, total, s, skip) ==
  IF c >= total THEN Ok(s)
  ELSE LET nodeC == NamedChild(node, c)
       IN IF nodeC.type = "identifier"
          THEN joinIdentifiers(node, c + 1, total,
                 (IF Len(s) > 0 THEN s \o Dot ELSE s) \o nodeC.text, skip)
          ELSE IF nodeC.type \in skip
          THEN joinIdentifiers(node, c + 1, total, s, skip)
          ELSE Exit("Unexpected node type")

readPackageIdentifier(node, ignoreLast) ==
  IF node = Nil THEN Panic
  ELSE IF node.type # "package_identifier" THEN Exit("Must be type 'package_identifier'")
  ELSE joinIdentifiers(node, 0,
         IF ignoreLast THEN NamedChildCount(node) - 1 ELSE NamedChildCount(node),
         <<>>, {})

readStableIdentifier(node, ignoreLast) ==
  IF node = Nil THEN Panic
  ELSE IF node.type # "stable_identifier" THEN Exit("Must be type 'stable_identifier'")
  ELSE joinIdentifiers(node, 0,
         IF ignoreLast THEN NamedChildCount(node) - 1 ELSE NamedChildCount(node),
         <<>>, {"stable_identifier"})

RECURSIVE selectorLoop_alias(_, _, _)
RECURSIVE selectorLoop(_, _, _)

(* variant: a rename entry yields its alias *)
selectorLoop_alias(node, c, imports) ==
  IF c >= NamedChildCount(node) THEN Ok(imports)
  ELSE LET nodeC == NamedChild(node, c)
       IN IF nodeC.type = "identifier"
          THEN selectorLoop_alias(node, c + 1, Append(imports, nodeC.text))
          ELSE IF nodeC.type = "renamed_identifier"
          THEN LET name == ChildByFieldName(nodeC, "alias")
               IN IF name = Nil THEN Panic
                  ELSE selectorLoop_alias(node, c + 1, Append(imports, name.text))
          ELSE Exit("Unexpected node type")

selectorLoop(node, c, imports) ==
  IF c >= NamedChildCount(node) THEN Ok(imports)
  ELSE LET nodeC == NamedChild(node, c)
       IN IF nodeC.type = "identifier"
          THEN selectorLoop(node, c + 1, Append(imports, nodeC.text))
          ELSE IF nodeC.type = "renamed_identifier"
          THEN LET name == ChildByFieldName(nodeC, "name")
               IN IF name = Nil THEN Panic
                  ELSE selectorLoop(node, c + 1, Append(imports, name.text))
          ELSE Exit("Unexpected node type")

readImportSelectors(node) ==
  IF node = Nil THEN Panic
  ELSE IF node.type # "import_selectors" THEN Exit("Must be type 'package_identifier'")
  ELSE selectorLoop(node, 0, <<>>)

RECURSIVE importPathLoop_appending(_, _)
RECURSIVE importPathLoop(_, _)

(* variant: each layer's segment is appended instead of prepended *)
importPathLoop_appending(path, importPackage) ==
  IF path = Nil THEN Ok(importPackage)
  ELSE LET dotted == IF importPackage # <<>> THEN importPackage \o Dot ELSE importPackage
           r == readStableIdentifier(path, FALSE)
       IN IF r.status # "ok" THEN r
          ELSE importPathLoop_appending(getLoneChild(path, "stable_identifier"), dotted \o r.val)

(* the "for path != nil" loop of Parse: outermost layer first, prepending *)
importPathLoop(path, importPackage) ==
  IF path = Nil THEN Ok(importPackage)
  ELSE LET dotted == IF importPackage # <<>> THEN Dot \o importPackage ELSE importPackage
           r == readStableIdentifier(path, FALSE)
       IN IF r.status # "ok" THEN r
          ELSE importPathLoop(getLoneChild(path, "stable_identifier"), r.val \o dotted)

RECURSIVE appendSelected(_, _, _, _)
appendSelected(imports, importPackage, symbols, k) ==
  IF k > Len(symbols) THEN imports
  ELSE appendSelected(Append(imports, importPackage \o Dot \o symbols[k]),
                      importPackage, symbols, k + 1)

(* the import_declaration branch of Parse: the new value of result.Imports *)
importBranch(nodeI, imports) ==
  LET p == importPathLoop(ChildByFieldName(nodeI, "path"), <<>>)
      selectors == getLoneChild(nodeI, "import_selectors")
  IN IF p.status # "ok" THEN p
     ELSE IF selectors = Nil
     THEN IF getLoneChild(nodeI, "import_wildcard") # Nil
          THEN Ok(Append(imports, p.val \o <<".", "_">>))
          ELSE Ok(Append(imports, p.val))
     ELSE LET s == readImportSelectors(selectors)
          IN IF s.status # "ok" THEN s
             ELSE Ok(appendSelected(imports, p.val, s.val, 1))

(* ---------------------------------------------------------------------- *)
(* Symbol Collector                                                        *)
(* ---------------------------------------------------------------------- *)
(* symbols = the returned slice, out = what was printed on the way,        *)
(* panic = a nil node was dereferenced                                     *)
Collected(symbols, out, panic) == [symbols |-> symbols, out |-> out, panic |-> panic]

DeclarationTypes ==
  {"function_definition", "type_definition", "class_definition",
   "trait_definition", "object_definition"}

RECURSIVE recursivelyParseSymbols(_, _)
RECURSIVE recursivelyParseSymbols_ownNameOnly(_, _)
RECURSIVE bodyLoop(_, _, _, _)
RECURSIVE bodyLoop_childrenFirst(_, _, _, _)

(* variant: the symbols of a member are put in front of those collected so far *)
bodyLoop_childrenFirst(body, i, namespace, acc) ==
  IF i >= NamedChildCount(body) \/ acc.panic THEN acc
  ELSE LET childSymbols == recursivelyParseSymbols(NamedChild(body, i), namespace)
       IN bodyLoop_childrenFirst(body, i + 1, namespace,
                   Collected(childSymbols.symbols \o acc.symbols,
                             acc.out \o childSymbols.out,
                             childSymbols.panic))

bodyLoop(body, i, namespace, acc) ==
  IF i >= NamedChildCount(body) \/ acc.panic THEN acc
  ELSE LET childSymbols == recursivelyParseSymbols(NamedChild(body, i), namespace)
       IN bodyLoop(body, i + 1, namespace,
                   Collected(acc.symbols \o childSymbols.symbols,
                             acc.out \o childSymbols.out,
                             childSymbols.panic))

(* variant: the members of an object are qualified by its own name only *)
recursivelyParseSymbols_ownNameOnly(node, namespace) ==
  IF hasAccessModifier(node) THEN Collected(<<>>, <<>>, FALSE)
  ELSE IF node.type \in DeclarationTypes
  THEN LET name == ChildByFieldName(node, "name")
           symbol == namespace \o name.text
           body == ChildByFieldName(node, "body")
       IN IF name = Nil THEN Collected(<<>>, <<>>, TRUE)
          ELSE IF node.type = "object_definition" /\ body # Nil
          THEN bodyLoop(body, 0, name.text \o Dot, Collected(<<symbol>>, <<>>, FALSE))
          ELSE Collected(<<symbol>>, <<>>, FALSE)
  ELSE IF node.type = "val_definition" \/ node.type = "var_definition"
  THEN LET pattern == ChildByFieldName(node, "pattern")
       IN IF pattern = Nil THEN Collected(<<>>, <<>>, TRUE)
          ELSE IF pattern.type = "case_class_pattern" THEN Collected(<<>>, <<>>, FALSE)
          ELSE Collected(<<namespace \o pattern.text>>, <<>>, FALSE)
  ELSE IF node.type # "comment"
  THEN Collected(<<>>, <<[msg |-> "Unknown symbol type", type |-> node.type]>>, FALSE)
  ELSE Collected(<<>>, <<>>, FALSE)

recursivelyParseSymbols(node, namespace) ==
  IF hasAccessModifier(node) THEN Collected(<<>>, <<>>, FALSE)
  ELSE IF node.type \in DeclarationTypes
  THEN LET name == ChildByFieldName(node, "name")
           symbol == namespace \o name.text
           body == ChildByFieldName(node, "body")
       IN IF name = Nil THEN Collected(<<>>, <<>>, TRUE)
          ELSE IF node.type = "object_definition" /\ body # Nil
          THEN bodyLoop(body, 0, symbol \o Dot, Collected(<<symbol>>, <<>>, FALSE))
          ELSE Collected(<<symbol>>, <<>>, FALSE)
  ELSE IF node.type = "val_definition" \/ node.type = "var_definition"
  THEN LET pattern == ChildByFieldName(node, "pattern")
       IN IF pattern = Nil THEN Collected(<<>>, <<>>, TRUE)
          ELSE IF pattern.type = "case_class_pattern" THEN Collected(<<>>, <<>>, FALSE)
          ELSE Collected(<<namespace \o pattern.text>>, <<>>, FALSE)
  ELSE IF node.type # "comment"
  THEN Collected(<<>>, <<[msg |-> "Unknown symbol type", type |-> node.type]>>, FALSE)
  ELSE Collected(<<>>, <<>>, FALSE)

(* ---------------------------------------------------------------------- *)
(* Syntax trees handed to Parse                                            *)
(* ---------------------------------------------------------------------- *)
Node(type, text, kids, fields) ==
  [type |-> type, text |-> text, kids |-> kids, fields |-> fields]

Leaf(type, text) == Node(type, text, <<>>, <<>>)

Identifier(text) == Leaf("identifier", text)

NoFields(kids) == [k \in 1..Len(kids) |-> ""]

SeqUpTo(S, n) == UNION {[1..k -> S] : k \in 0..n}

Letters == <<"a", "b", "c", "d", "e", "f">>

(* the k-th segment of a dotted path *)
Seg(k) == <<Letters[((k - 1) % Len(Letters)) + 1]>>

Segs(n) == [k \in 1..n |-> Seg(k)]

PackageIdentifier(kids) == Node("package_identifier", <<>>, kids, NoFields(kids))

PackageClause(segs) ==
  Node("package_clause", <<>>,
       <<PackageIdentifier([k \in 1..Len(segs) |-> Identifier(segs[k])])>>, <<"name">>)

(* package clauses of wrong shape *)
PackageNoIdentifier == Node("package_clause", <<>>, <<>>, <<>>)

PackageBadSegment ==
  Node("package_clause", <<>>,
       <<PackageIdentifier(<<Identifier(Seg(1)), Leaf("comment", <<"/">>)>>)>>, <<"name">>)

(* right-nested path: the innermost layer holds the first two segments *)
RECURSIVE StableIdentifier(_)
StableIdentifier(n) ==
  IF n <= 2
  THEN Node("stable_identifier", <<>>, <<Identifier(Seg(1)), Identifier(Seg(2))>>, <<"", "">>)
  ELSE Node("stable_identifier", <<>>, <<StableIdentifier(n - 1), Identifier(Seg(n))>>, <<"", "">>)

Renamed(name, alias) ==
  Node("renamed_identifier", <<>>, <<Identifier(name), Identifier(alias)>>, <<"name", "alias">>)

SelectorEntries == {Identifier(<<"x">>), Identifier(<<"y">>), Renamed(<<"y">>, <<"z">>)}

ImportSelectors(entries) == Node("import_selectors", <<>>, entries, NoFields(entries))

(* tail = the named children after the path *)
ImportDeclaration(path, tail) ==
  Node("import_declaration", <<>>, <<path>> \o tail, <<"path">> \o NoFields(tail))

Wildcard == Leaf("import_wildcard", <<"_">>)

PlainImports == {ImportDeclaration(StableIdentifier(n), <<>>) : n \in 2..MaxDepth}

WildcardImports == {ImportDeclaration(StableIdentifier(n), <<Wildcard>>) : n \in 2..MaxDepth}

SelectorImports ==
  {ImportDeclaration(StableIdentifier(n), <<ImportSelectors(es)>>) :
     n \in 2..3, es \in SeqUpTo(SelectorEntries, MaxSel) \ {<<>>}}

(* import path that is a bare identifier, and a selector entry of unknown shape *)
ImportBarePath == ImportDeclaration(Identifier(Seg(1)), <<>>)

ImportBadSelector ==
  ImportDeclaration(StableIdentifier(2),
                    <<ImportSelectors(<<Identifier(<<"x">>), Leaf("wildcard", <<"_">>)>>)>>)

ImportNodes ==
  PlainImports \cup WildcardImports \cup SelectorImports
    \cup {ImportBarePath, ImportBadSelector}

Modifiers(kind) ==
  IF kind = "access" THEN <<Node("modifiers", <<>>, <<Leaf("access_modifier", <<>>)>>, <<"">>)>>
  ELSE IF kind = "other" THEN <<Node("modifiers", <<>>, <<Leaf("inline_modifier", <<>>)>>, <<"">>)>>
  ELSE IF kind = "both"
  THEN <<Node("modifiers", <<>>,
              <<Leaf("inline_modifier", <<>>), Leaf("access_modifier", <<>>)>>, <<"", "">>)>>
  ELSE <<>>

ModifierKinds == {"none", "access", "other", "both"}

(* function, type, class, trait: modifiers and the name *)
Declaration(type, name, kind) ==
  Node(type, <<>>, Modifiers(kind) \o <<Identifier(name)>>,
       NoFields(Modifiers(kind)) \o <<"name">>)

ObjectDefinition(name, kind, members) ==
  Node("object_definition", <<>>,
       Modifiers(kind) \o <<Identifier(name),
                            Node("template_body", <<>>, members, NoFields(members))>>,
       NoFields(Modifiers(kind)) \o <<"name", "body">>)

(* val / var with its binding pattern *)
Binding(type, pattern, kind) ==
  Node(type, <<>>, Modifiers(kind) \o <<pattern>>, NoFields(Modifiers(kind)) \o <<"pattern">>)

CaseClassPattern == Leaf("case_class_pattern", <<"A", "(", "x", ",", "y", ")">>)

TuplePattern == Leaf("tuple_pattern", <<"(", "x", ",", "y", ")">>)

Comment == Leaf("comment", <<"/", "/">>)

Unrecognized == Leaf("package_object", <<>>)

(* objects nested to depth d; every body holds at most one inner object *)
BodyLeaves ==
  {Declaration("function_definition", <<"f">>, "none"),
   Declaration("function_definition", <<"g">>, "access")}

ObjectName(d) == <<<<"M", "N", "O", "P">>[((d - 1) % 4) + 1]>>

RECURSIVE Objects(_)
Objects(d) ==
  IF d <= 0 THEN {}
  ELSE LET inner == Objects(d - 1)
           bodies == {<<>>}
                     \cup {<<m>> : m \in BodyLeaves \cup inner}
                     \cup {<<l, m>> : l \in BodyLeaves, m \in BodyLeaves \cup inner}
                     \cup {<<o, l>> : o \in inner, l \in BodyLeaves}
       IN {ObjectDefinition(ObjectName(d), kind, b) : kind \in {"none", "access"}, b \in bodies}

(* object without a body, and object with two sibling objects in its body *)
ObjectNoBody == Declaration("object_definition", <<"M">>, "none")

ObjectSiblings ==
  {ObjectDefinition(<<"P">>, "none",
     <<ObjectDefinition(<<"M">>, k1, <<Declaration("function_definition", <<"f">>, "none")>>),
       Binding("val_definition", Identifier(<<"x">>), "none"),
       ObjectDefinition(<<"N">>, k2, <<Declaration("function_definition", <<"f">>, "none"),
                                       Unrecognized>>)>>) :
     k1 \in {"none", "access"}, k2 \in {"none", "other"}}

(* class and trait with a member in their body *)
WithBody(type) ==
  Node(type, <<>>,
       <<Identifier(<<"C">>),
         Node("template_body", <<>>, <<Declaration("function_definition", <<"f">>, "none")>>, <<"">>)>>,
       <<"name", "body">>)

SimpleDeclarations ==
  {Declaration(t, <<"f">>, k) :
     t \in {"function_definition", "type_definition", "class_definition", "trait_definition"},
     k \in ModifierKinds}

Bindings ==
  {Binding(t, p, k) : t \in {"val_definition", "var_definition"},
                      p \in {Identifier(<<"x">>), CaseClassPattern, TuplePattern},
                      k \in {"none", "access"}}

(* the declarations found side by side in the checked files *)
SymbolAlphabet ==
  {Declaration("function_definition", <<"f">>, "none"),
   Declaration("class_definition", <<"g">>, "access"),
   Binding("val_definition", Identifier(<<"x">>), "none"),
   Binding("val_definition", CaseClassPattern, "none"),
   Binding("var_definition", TuplePattern, "none"),
   Unrecognized,
   Comment,
   ObjectDefinition(<<"M">>, "none", <<Declaration("function_definition", <<"f">>, "none")>>),
   ObjectDefinition(<<"M">>, "access", <<Declaration("function_definition", <<"f">>, "none")>>)}

SymbolNodes ==
  SimpleDeclarations \cup Bindings \cup Objects(MaxNest) \cup ObjectSiblings
    \cup {ObjectNoBody, Unrecognized, Comment,
          WithBody("class_definition"), WithBody("trait_definition"),
          Node("package_object", <<>>, Modifiers("access"), <<"">>)}

PackageAlphabet ==
  {PackageClause(<<>>), PackageClause(Segs(1)), PackageClause(Segs(3)),
   PackageNoIdentifier, PackageBadSegment,
   Declaration("function_definition", <<"f">>, "none")}

ImportAlphabet ==
  {ImportDeclaration(StableIdentifier(2), <<>>),
   ImportDeclaration(StableIdentifier(3), <<Wildcard>>),
   ImportDeclaration(StableIdentifier(2),
                     <<ImportSelectors(<<Identifier(<<"x">>), Renamed(<<"y">>, <<"z">>)>>)>>),
   ImportBarePath, ImportBadSelector}

MixedAlphabet ==
  {PackageClause(Segs(2)), PackageClause(<<>>),
   ImportDeclaration(StableIdentifier(3), <<>>), ImportBadSelector,
   Declaration("function_definition", <<"f">>, "none"), Unrecognized}

Singles(S) == {<<n>> : n \in S}

RootChildren ==
  SeqUpTo(PackageAlphabet, MaxRoot) \cup SeqUpTo(ImportAlphabet, MaxRoot)
    \cup SeqUpTo(SymbolAlphabet, MaxRoot) \cup SeqUpTo(MixedAlphabet, MaxRoot)
    \cup Singles(ImportNodes) \cup Singles(SymbolNodes)

CompilationUnit(kids) == Node("compilation_unit", <<>>, kids, NoFields(kids))

Sources == {CompilationUnit(kids) : kids \in RootChildren}

(* what treeutils.QueryErrors may hand back: nil or the syntax errors found *)
TreeErrors ==
  {<<>>,
   <<[msg |-> "syntax error", type |-> "ERROR"]>>,
   <<[msg |-> "syntax error", type |-> "ERROR"], [msg |-> "syntax error", type |-> "MISSING"]>>}

ParseError == [msg |-> "parse error", type |-> ""]

(* ---------------------------------------------------------------------- *)
(* treeSitterParser.Parse                                                  *)
(* ---------------------------------------------------------------------- *)
VARIABLES
  source,      \* the tree the provider builds for the source text
  pc,          \* position of the Parse call
  tree,        \* tree returned by ParseCtx (Nil when it returned none)
  i,           \* index of the root-child loop
  result,      \* the ParseResult under construction
  errs,        \* the error list under construction
  out,         \* what has been printed to standard output
  dispatched,  \* indexes of the root children dispatched so far (history)
  queries,     \* number of syntax-error queries made so far (history)
  reported,    \* errors the provider has handed over so far (history)
  returned     \* TRUE once Parse has returned (result, errs)

vars == <<source, pc, tree, i, result, errs, out, dispatched, queries, reported, returned>>

Printed(m, t) == [msg |-> m, type |-> t]

InitWith(trees) ==
  /\ source \in trees
  /\ pc = "Init"
  /\ tree = Nil
  /\ i = 0
  /\ result = [File |-> "file.scala", Imports |-> <<>>, Symbols |-> <<>>,
               Package |-> <<>>, HasMain |-> FALSE]
  /\ errs = <<>>
  /\ out = <<>>
  /\ dispatched = <<>>
  /\ queries = 0
  /\ reported = <<>>
  /\ returned = FALSE

Init == InitWith(Sources)

(* p.parser.ParseCtx: a tree and no error, or no tree and an error; *)
(* without a tree the call returns at once                           *)
ParseCtx ==
  /\ pc = "Init"
  /\ \E ok \in BOOLEAN :
       IF ok
       THEN /\ tree' = source
            /\ pc' = "Dispatch"
            /\ UNCHANGED <<errs, reported, returned>>
       ELSE /\ tree' = Nil
            /\ errs' = Append(errs, ParseError)
            /\ reported' = Append(reported, ParseError)
            /\ pc' = "Done"
            /\ returned' = TRUE
  /\ UNCHANGED <<source, i, result, out, dispatched, queries>>

AtChild(type) ==
  /\ pc = "Dispatch"
  /\ i < NamedChildCount(tree)
  /\ type = NamedChild(tree, i).type

Abort(r) ==
  /\ pc' = IF r.status = "exit" THEN "Fatal" ELSE "Panic"
  /\ out' = IF r.status = "exit" THEN Append(out, Printed(r.msg, "")) ELSE out
  /\ UNCHANGED <<i, result>>

DispatchPackage ==
  /\ AtChild("package_clause")
  /\ dispatched' = Append(dispatched, i)
  /\ LET nodeI == NamedChild(tree, i)
         r == readPackageIdentifier(getLoneChild(nodeI, "package_identifier"), FALSE)
     IN IF result.Package # <<>>
        THEN Abort(Exit("Multiple package declarations found"))
        ELSE IF r.status # "ok"
        THEN Abort(r)
        ELSE /\ result' = [result EXCEPT !.Package = r.val]
             /\ i' = i + 1
             /\ UNCHANGED <<pc, out>>
  /\ UNCHANGED <<source, tree, errs, queries, reported, returned>>

DispatchImport ==
  /\ AtChild("import_declaration")
  /\ dispatched' = Append(dispatched, i)
  /\ LET r == importBranch(NamedChild(tree, i), result.Imports)
     IN IF r.status # "ok"
        THEN Abort(r)
        ELSE /\ result' = [result EXCEPT !.Imports = r.val]
             /\ i' = i + 1
             /\ UNCHANGED <<pc, out>>
  /\ UNCHANGED <<source, tree, errs, queries, reported, returned>>

DispatchSymbols ==
  /\ pc = "Dispatch"
  /\ i < NamedChildCount(tree)
  /\ NamedChild(tree, i).type \notin {"package_clause", "import_declaration"}
  /\ dispatched' = Append(dispatched, i)
  /\ LET childSymbols == recursivelyParseSymbols(NamedChild(tree, i), <<>>)
     IN /\ out' = out \o childSymbols.out
        /\ IF childSymbols.panic
           THEN /\ pc' = "Panic"
                /\ UNCHANGED <<i, result>>
           ELSE /\ result' = [result EXCEPT !.Symbols = @ \o childSymbols.symbols]
                /\ i' = i + 1
                /\ UNCHANGED pc
  /\ UNCHANGED <<source, tree, errs, queries, reported, returned>>

(* variant: the loop stops one child early *)
EndLoop_early ==
  /\ pc = "Dispatch"
  /\ i >= NamedChildCount(tree) - 1
  /\ pc' = "ErrorQuery"
  /\ UNCHANGED <<source, tree, i, result, errs, out, dispatched, queries, reported, returned>>

(* the loop condition fails: every root child has been dispatched *)
EndLoop ==
  /\ pc = "Dispatch"
  /\ i >= NamedChildCount(tree)
  /\ pc' = "ErrorQuery"
  /\ UNCHANGED <<source, tree, i, result, errs, out, dispatched, queries, reported, returned>>

(* treeutils.QueryErrors, then "return result, errs" *)
QueryErrors ==
  /\ pc = "ErrorQuery"
  /\ \E treeErrors \in TreeErrors :
       /\ errs' = errs \o treeErrors
       /\ reported' = reported \o treeErrors
  /\ queries' = queries + 1
  /\ pc' = "Done"
  /\ returned' = TRUE
  /\ UNCHANGED <<source, tree, i, result, out, dispatched>>

Next ==
  \/ ParseCtx
  \/ DispatchPackage
  \/ DispatchImport
  \/ DispatchSymbols
  \/ EndLoop
  \/ QueryErrors

Spec == Init /\ [][Next]_vars

(* Parse is one synchronous call: it keeps running until it returns or aborts. *)
(* The phase order is checked over files mixing every kind of root child.     *)
PhaseSources ==
  {CompilationUnit(kids) : kids \in SeqUpTo(MixedAlphabet \cup {PackageNoIdentifier}, MaxRoot)}

PhaseInit == InitWith(PhaseSources)

PhaseSpec == PhaseInit /\ [][Next]_vars /\ WF_vars(Next)

TypeOK ==
  /\ pc \in {"Init", "Dispatch", "ErrorQuery", "Done", "Fatal", "Panic"}
  /\ i \in 0..MaxRoot
  /\ queries \in 0..1
  /\ returned \in BOOLEAN

(* ---------------------------------------------------------------------- *)
(* Vocabulary of the properties, stated on the syntax tree alone           *)
(* ---------------------------------------------------------------------- *)
Range(s) == {s[k] : k \in 1..Len(s)}

RECURSIVE DotJoin(_)
DotJoin(segs) ==
  IF Len(segs) = 0 THEN <<>>
  ELSE IF Len(segs) = 1 THEN segs[1]
  ELSE segs[1] \o Dot \o DotJoin(Tail(segs))

RECURSIVE Flatten(_)
Flatten(ss) == IF Len(ss) = 0 THEN <<>> ELSE Head(ss) \o Flatten(Tail(ss))

(* the identifier leaves of a dotted path, left to right as in the source *)
RECURSIVE SourceSegments(_)
SourceSegments(node) ==
  IF node.type = "identifier" THEN <<node.text>>
  ELSE Flatten([k \in 1..Len(node.kids) |-> SourceSegments(node.kids[k])])

KidsOfType(node, type) == {k \in 1..Len(node.kids) : node.kids[k].type = type}

HasKid(node, type) == KidsOfType(node, type) # {}

KidOfType(node, type) == node.kids[CHOOSE k \in KidsOfType(node, type) : TRUE]

FieldKid(node, name) == node.kids[CHOOSE k \in 1..Len(node.kids) : node.fields[k] = name]

PackageClauses(root) == KidsOfType(root, "package_clause")

WellFormedPackage(clause) ==
  /\ HasKid(clause, "package_identifier")
  /\ \A k \in 1..Len(KidOfType(clause, "package_identifier").kids) :
       KidOfType(clause, "package_identifier").kids[k].type = "identifier"

(* a right-nested chain: two identifiers, or an inner chain and one identifier *)
RECURSIVE IsChain(_)
IsChain(path) ==
  /\ path.type = "stable_identifier"
  /\ Len(path.kids) = 2
  /\ path.kids[2].type = "identifier"
  /\ \/ path.kids[1].type = "identifier"
     \/ IsChain(path.kids[1])

WellFormedImport(decl) ==
  /\ decl.type = "import_declaration"
  /\ IsChain(FieldKid(decl, "path"))
  /\ HasKid(decl, "import_selectors") =>
       \A k \in 1..Len(KidOfType(decl, "import_selectors").kids) :
         KidOfType(decl, "import_selectors").kids[k].type \in {"identifier", "renamed_identifier"}

PlainImport(decl) ==
  /\ WellFormedImport(decl)
  /\ ~HasKid(decl, "import_selectors")
  /\ ~HasKid(decl, "import_wildcard")

BasePath(decl) == DotJoin(SourceSegments(FieldKid(decl, "path")))

(* the name a selector entry imports: the identifier, or the name before "=>" *)
SelectedName(entry) ==
  IF entry.type = "renamed_identifier" THEN FieldKid(entry, "name").text ELSE entry.text

ExpectedImports(decl) ==
  IF HasKid(decl, "import_selectors")
  THEN LET entries == KidOfType(decl, "import_selectors").kids
       IN [k \in 1..Len(entries) |-> BasePath(decl) \o Dot \o SelectedName(entries[k])]
  ELSE IF HasKid(decl, "import_wildcard") THEN <<BasePath(decl) \o <<".", "_">>>>
  ELSE <<BasePath(decl)>>

NoStrayDot(s) ==
  /\ s # <<>>
  /\ s[1] # "." /\ s[Len(s)] # "."
  /\ \A k \in 1..(Len(s) - 1) : ~(s[k] = "." /\ s[k + 1] = ".")

Current == NamedChild(tree, i)

Dispatching(type) == pc = "Dispatch" /\ i < NamedChildCount(tree) /\ Current.type = type

Aborted == pc \in {"Fatal", "Panic"}

(* ---------------------------------------------------------------------- *)
(* C1: a file with two or more package clauses never gets past its second  *)
(* package clause and never yields a ParseResult, whatever the first       *)
(* clause reads as.                                                        *)
(* ---------------------------------------------------------------------- *)
SecondPackage(root) ==
  CHOOSE k \in PackageClauses(root) :
    Cardinality({j \in PackageClauses(root) : j < k}) = 1

C1_SecondPackageFatal ==
  (tree # Nil /\ Cardinality(PackageClauses(tree)) >= 2) =>
     /\ ~returned
     /\ i < SecondPackage(tree)

(* ---------------------------------------------------------------------- *)
(* C2: qualified names come out in source order: the package of a file     *)
(* with exactly one (well-formed) package clause is the dot-join of its    *)
(* segments, it is empty without a package clause, and a plain import of   *)
(* a right-nested chain appends exactly the dot-join of its segments,      *)
(* without leading, trailing or doubled dot.                               *)
(* ---------------------------------------------------------------------- *)
C2_PackageInOrder ==
  (returned /\ tree # Nil) =>
     /\ PackageClauses(tree) = {} => result.Package = <<>>
     /\ (Cardinality(PackageClauses(tree)) = 1
           /\ WellFormedPackage(KidOfType(tree, "package_clause"))) =>
          result.Package =
            DotJoin(SourceSegments(KidOfType(KidOfType(tree, "package_clause"),
                                             "package_identifier")))

C2_PlainImportInOrder ==
  (Dispatching("import_declaration") /\ PlainImport(Current)) =>
     /\ pc' = "Dispatch" /\ i' = i + 1
     /\ result'.Imports = Append(result.Imports, BasePath(Current))
     /\ NoStrayDot(BasePath(Current))
     /\ Len(SourceSegments(FieldKid(Current, "path"))) \in 2..MaxDepth

C2_QualifiedNamesInSourceOrder == [](C2_PackageInOrder) /\ [][C2_PlainImportInOrder]_vars

C2_Witness ==
  /\ returned
  /\ result.Package = <<"a", ".", "b">>
  /\ result.Imports = <<<<"a", ".", "b", ".", "c">>>>

(* ---------------------------------------------------------------------- *)
(* C3: the imports list is, in declaration order and with duplicates, the  *)
(* expansion of every import declaration dispatched so far: one string     *)
(* B.<name> per selector entry (the original name of a rename), B._ for a  *)
(* wildcard, B otherwise.                                                  *)
(* ---------------------------------------------------------------------- *)
ImportsUpTo(root, n) ==
  Flatten([k \in 1..n |->
             IF root.kids[k].type = "import_declaration"
             THEN ExpectedImports(root.kids[k]) ELSE <<>>])

C3_ImportExpansion ==
  /\ tree = Nil => result.Imports = <<>>
  /\ tree # Nil => result.Imports = ImportsUpTo(tree, i)

C3_Witness ==
  /\ returned
  /\ result.Imports = <<<<"a", ".", "b", ".", "x">>, <<"a", ".", "b", ".", "y">>,
                        <<"a", ".", "b", ".", "c", ".", "_">>,
                        <<"a", ".", "b", ".", "x">>, <<"a", ".", "b", ".", "y">>>>

(* ---------------------------------------------------------------------- *)
(* Declarations of a tree, addressed by position: <<>> is the node itself, *)
(* <<k>> \o p is position p inside the k-th member of an object's body.    *)
(* ---------------------------------------------------------------------- *)
Restricted(node) ==
  \E k \in KidsOfType(node, "modifiers") : HasKid(node.kids[k], "access_modifier")

HasField(node, name) == \E k \in 1..Len(node.kids) : node.fields[k] = name

Members(node) ==
  IF node.type = "object_definition" /\ HasField(node, "body")
  THEN FieldKid(node, "body").kids ELSE <<>>

RECURSIVE Positions(_)
Positions(node) ==
  {<<>>} \cup UNION {{<<k>> \o p : p \in Positions(Members(node)[k])} :
                       k \in 1..Len(Members(node))}

RECURSIVE NodeAt(_, _)
NodeAt(node, p) == IF p = <<>> THEN node ELSE NodeAt(Members(node)[Head(p)], Tail(p))

Front(p) == SubSeq(p, 1, Len(p) - 1)

(* no node from the root child down to position p is restricted *)
Visible(node, p) == \A j \in 0..Len(p) : ~Restricted(NodeAt(node, SubSeq(p, 1, j)))

IsBinding(node) == node.type \in {"val_definition", "var_definition"}

Emits(node) ==
  \/ node.type \in DeclarationTypes
  \/ IsBinding(node) /\ FieldKid(node, "pattern").type # "case_class_pattern"

OwnName(node) ==
  IF IsBinding(node) THEN FieldKid(node, "pattern").text ELSE FieldKid(node, "name").text

Emitters(node) == {p \in Positions(node) : Visible(node, p) /\ Emits(NodeAt(node, p))}

QualifiedName(node, p) ==
  DotJoin([j \in 1..(Len(p) + 1) |-> OwnName(NodeAt(node, SubSeq(p, 1, j - 1)))])

(* pre-order: a container before its members, siblings in source order *)
Before(p, q) ==
  /\ p # q
  /\ \/ Len(p) < Len(q) /\ SubSeq(q, 1, Len(p)) = p
     \/ \E k \in 1..Len(p) :
          /\ k <= Len(q)
          /\ SubSeq(p, 1, k - 1) = SubSeq(q, 1, k - 1)
          /\ p[k] < q[k]

Rank(node, p) == 1 + Cardinality({q \in Emitters(node) : Before(q, p)})

PreOrder(node) ==
  [r \in 1..Cardinality(Emitters(node)) |->
     QualifiedName(node, CHOOSE p \in Emitters(node) : Rank(node, p) = r)]

IsSymbolChild(node) == node.type \notin {"package_clause", "import_declaration"}

DispatchingSymbols == pc = "Dispatch" /\ i < NamedChildCount(tree) /\ IsSymbolChild(Current)

(* what the step under way has appended to result.Symbols *)
Appended == SubSeq(result'.Symbols, Len(result.Symbols) + 1, Len(result'.Symbols))

(* ---------------------------------------------------------------------- *)
(* C4: a declaration carrying an access modifier contributes nothing, and  *)
(* neither does anything nested inside it: a dispatched root child adds    *)
(* exactly as many symbols as it has emitting declarations with no         *)
(* restricted node on the way down, none at all when it is restricted      *)
(* itself; an unrestricted function adds exactly its declared name.        *)
(* ---------------------------------------------------------------------- *)
C4_Step ==
  DispatchingSymbols =>
     /\ pc' = "Dispatch"
     /\ SubSeq(result'.Symbols, 1, Len(result.Symbols)) = result.Symbols
     /\ Restricted(Current) => result'.Symbols = result.Symbols
     /\ Len(Appended) = Cardinality(Emitters(Current))
     /\ \A p \in Positions(Current) :
          Restricted(NodeAt(Current, p)) =>
            recursivelyParseSymbols(NodeAt(Current, p),
                                    IF p = <<>> THEN <<>>
                                    ELSE QualifiedName(Current, Front(p)) \o Dot).symbols = <<>>
     /\ (Current.type = "function_definition" /\ ~Restricted(Current)) =>
          Appended = <<OwnName(Current)>>

C4_VisibilityPruning == [][C4_Step]_vars

C4_Witness ==
  /\ returned
  /\ \E k \in 1..Len(tree.kids) :
       /\ tree.kids[k].type = "object_definition"
       /\ ~Restricted(tree.kids[k])
       /\ \E p \in Positions(tree.kids[k]) :
            /\ Len(p) = 2
            /\ ~Restricted(NodeAt(tree.kids[k], p))
            /\ Restricted(NodeAt(tree.kids[k], Front(p)))
  /\ result.Symbols = <<<<"N">>>>

(* ---------------------------------------------------------------------- *)
(* C5: symbols is the pre-order, source-order list of the qualified names  *)
(* of the unrestricted declarations dispatched so far: an object before    *)
(* the members of its body, only object bodies descended into.             *)
(* ---------------------------------------------------------------------- *)
SymbolsUpTo(root, n) ==
  Flatten([k \in 1..n |-> IF IsSymbolChild(root.kids[k]) THEN PreOrder(root.kids[k]) ELSE <<>>])

C5_PreOrderSymbols ==
  /\ tree = Nil => result.Symbols = <<>>
  /\ tree # Nil => result.Symbols = SymbolsUpTo(tree, i)

C5_Witness ==
  /\ returned
  /\ result.Symbols = <<<<"N">>, <<"N", ".", "f">>, <<"N", ".", "M">>, <<"N", ".", "M", ".", "f">>>>

(* ---------------------------------------------------------------------- *)
(* C10: every symbol of a declaration nested in an object body is P.n,     *)
(* with P the symbol of the immediately enclosing object, found at an      *)
(* earlier index; the symbol of a root child has no prefix.                *)
(* ---------------------------------------------------------------------- *)
C10_Step ==
  DispatchingSymbols =>
    \A p \in Emitters(Current) :
      IF p = <<>>
      THEN Appended[1] = OwnName(Current)
      ELSE /\ Rank(Current, Front(p)) < Rank(Current, p)
           /\ Appended[Rank(Current, p)] =
                Appended[Rank(Current, Front(p))] \o Dot \o OwnName(NodeAt(Current, p))

DotsOf(s) == {k \in 1..Len(s) : s[k] = "."}

Enclosing(s) == SubSeq(s, 1, (CHOOSE k \in DotsOf(s) : \A j \in DotsOf(s) : j <= k) - 1)

C10_Closed ==
  \A k \in 1..Len(result.Symbols) :
    DotsOf(result.Symbols[k]) # {} =>
      \E j \in 1..(k - 1) : result.Symbols[j] = Enclosing(result.Symbols[k])

C10_PrefixClosure == [](C10_Closed) /\ [][C10_Step]_vars

C10_Witness ==
  /\ returned
  /\ result.Symbols = <<<<"N">>, <<"N", ".", "M">>, <<"N", ".", "M", ".", "f">>, <<"N", ".", "f">>>>

(* ---------------------------------------------------------------------- *)
(* C6: a val or var whose binding pattern destructures (a case-class       *)
(* pattern, a tuple pattern) adds no symbol; any other binding adds        *)
(* exactly its pattern text.                                               *)
(* ---------------------------------------------------------------------- *)
DestructuringPatterns == {"case_class_pattern", "tuple_pattern"}

C6_Step ==
  (DispatchingSymbols /\ IsBinding(Current) /\ ~Restricted(Current)) =>
     IF FieldKid(Current, "pattern").type \in DestructuringPatterns
     THEN result'.Symbols = result.Symbols
     ELSE Appended = <<OwnName(Current)>>

C6_DestructuringContributesNothing == [][C6_Step]_vars

(* ---------------------------------------------------------------------- *)
(* C7: when Parse returns, the error list holds a diagnostic for every     *)
(* unrestricted node of unrecognized kind met by the Symbol Collector, and *)
(* every error the tree provider handed over; the unrecognized node adds   *)
(* no symbol and the nodes after it are still processed.                   *)
(* ---------------------------------------------------------------------- *)
UnrecognizedKind(node) ==
  /\ node.type \notin DeclarationTypes
  /\ ~IsBinding(node)
  /\ node.type # "comment"

UnrecognizedMet(root) ==
  UNION {{NodeAt(root.kids[k], p) :
            p \in {q \in Positions(root.kids[k]) :
                     /\ Visible(root.kids[k], q)
                     /\ UnrecognizedKind(NodeAt(root.kids[k], q))}} :
           k \in {j \in 1..Len(root.kids) : IsSymbolChild(root.kids[j])}}

C7_DiagnosticsReturned ==
  returned =>
     /\ Range(reported) \subseteq Range(errs)
     /\ tree # Nil =>
          \A n \in UnrecognizedMet(tree) :
            Printed("Unknown symbol type", n.type) \in Range(errs)

(* ---------------------------------------------------------------------- *)
(* C8: a package clause of wrong shape (no package_identifier child, or a  *)
(* package_identifier with a child that is not an identifier) is never     *)
(* passed and no ParseResult is returned; when the call stops at it, it    *)
(* has stopped through the reported fatal exit.                            *)
(* ---------------------------------------------------------------------- *)
MalformedPackages(root) ==
  {k \in PackageClauses(root) : ~WellFormedPackage(root.kids[k])}

C8_MalformedPackageReported ==
  tree # Nil =>
    \A k \in MalformedPackages(tree) :
       /\ i < k
       /\ ~returned
       /\ (i = k - 1 /\ pc # "Dispatch") =>
             /\ pc = "Fatal"
             /\ out # <<>>
             /\ out[Len(out)].msg \in {"Must be type 'package_identifier'",
                                       "Unexpected node type",
                                       "Multiple package declarations found"}

(* ---------------------------------------------------------------------- *)
(* C9: phase order of one Parse call.                                      *)
(* ---------------------------------------------------------------------- *)
AllIndexes(n) == [k \in 1..n |-> k - 1]

Terminated == pc \in {"Done", "Fatal", "Panic"}

(* C9 as stated: every call that returns has run the syntax-error query    *)
(* exactly once, after dispatching every root child once in index order;   *)
(* an aborted call has returned nothing and has not run the query.         *)
C9_OriginalPhaseOrder ==
  /\ dispatched = AllIndexes(Len(dispatched))
  /\ queries >= 1 => (tree # Nil /\ dispatched = AllIndexes(NamedChildCount(tree)))
  /\ returned => (pc = "Done" /\ queries = 1)
  /\ pc = "Done" => returned
  /\ Aborted => (~returned /\ queries = 0)

(* C9 amended: the same when ParseCtx yields a tree; when it yields none,  *)
(* the call goes from Init straight to Done, dispatching nothing and       *)
(* without running the syntax-error query. Phases only move forward, no    *)
(* step is taken after Done or an abort, and every call ends in one of     *)
(* them.                                                                   *)
C9_Phases ==
  /\ dispatched = AllIndexes(Len(dispatched))
  /\ queries >= 1 => (tree # Nil /\ dispatched = AllIndexes(NamedChildCount(tree)))
  /\ returned => /\ pc = "Done"
                 /\ tree # Nil => queries = 1
                 /\ tree = Nil => (queries = 0 /\ dispatched = <<>>)
  /\ pc = "Done" => returned
  /\ Aborted => (~returned /\ queries = 0)
  /\ pc = "Dispatch" => (tree # Nil /\ Len(dispatched) = i)
  /\ Aborted => Len(dispatched) = i + 1

C9_Forward ==
  /\ ~Terminated
  /\ \/ pc = "Init" /\ pc' = "Dispatch" /\ tree' # Nil
     \/ pc = "Init" /\ pc' = "Done" /\ tree' = Nil
     \/ pc = "Dispatch" /\ pc' = "Dispatch" /\ i' = i + 1 /\ dispatched' = Append(dispatched, i)
     \/ pc = "Dispatch" /\ pc' \in {"Fatal", "Panic"} /\ dispatched' = Append(dispatched, i)
     \/ pc = "Dispatch" /\ pc' = "ErrorQuery" /\ i = NamedChildCount(tree)
          /\ dispatched' = dispatched
     \/ pc = "ErrorQuery" /\ pc' = "Done" /\ queries' = queries + 1 /\ dispatched' = dispatched

C9_AmendedPhaseOrder == [](C9_Phases) /\ [][C9_Forward]_vars /\ <>Terminated

C9_Witness ==
  /\ pc = "Fatal"
  /\ i + 1 < NamedChildCount(tree)
  /\ i >= 1
  /\ result.Symbols # <<>>

====
